---------------------------- MODULE Spec2Model ----------------------------
(***************************************************************************)
(* A model of the text-corpus library: the length-bounding line            *)
(* transformer (text/lazy.py, EnsureMaxLength), the memory-mapped corpus   *)
(* stores (text/datasets.py, MemMappedCorpus and MemMappedParallelCorpus)  *)
(* with the fan-out of their generator, the pipeline of line transforms    *)
(* (text/textprocessing.py, PrePostPipeline) and the sentence splitting    *)
(* transformer (text/lazy.py, SentenceSplit). Each has a specification of  *)
(* its own, in which the variables of the others stay as they start.       *)
(*                                                                         *)
(* A string is a sequence of one-character strings; a token is a string    *)
(* without whitespace; a line is a string.                                 *)
(*                                                                         *)
(* Every record is written with its fields in the order in which their     *)
(* names first occur in this module, which is the order TLC keeps them in. *)
(***************************************************************************)
EXTENDS Integers, Sequences, FiniteSets, TLC

VARIABLES
    \* ---- EnsureMaxLength (text/lazy.py) ----
    max_length,   \* self.max_length
    split,        \* self.split
    nb_parts,     \* self.nb_parts, the part-count ledger
    generator,    \* the lines handed to __call__
    reiterable,   \* TRUE: generator is a list; FALSE: a one-shot iterator
    pc_call,      \* where the __call__ generator is suspended
    idx,          \* lines of generator the running loop has taken
    pending,      \* parts of the current line not yet yielded
    out,          \* the lines __call__ has yielded so far
    pc_join,      \* where the join generator is suspended
    join_i,       \* join's local i
    join_parts,   \* join's local parts
    join_read,    \* lines of out that join has pulled
    join_out,     \* the lines join has yielded so far
    \* ---- MemMappedCorpus, MemMappedParallelCorpus (text/datasets.py) ----
    fs,           \* the artifacts on disk: per output_path, the lengths file
                  \* and the memmap file, each <<>> (absent) or <<content>>
    corpus,       \* the MemMappedCorpus constructed last (<<>>: none yet)
    last,         \* what its construction was given, found and did
    origin,       \* the build that wrote the artifacts of StorePath
    corpora,      \* self.corpora of the MemMappedParallelCorpus constructed last
    plast,        \* what its construction was given, found and did
    \* ---- PrePostPipeline (text/textprocessing.py) ----
    pipe_pre,     \* self._pre
    pipe_post,    \* self._post
    pipe_line,    \* the line handed to pre last (<<>>: none yet)
    pipe_mid,     \* what pre returned for it
    pipe_out,     \* what post returned for pipe_mid (<<>>: not called yet)
    \* ---- SentenceSplit (text/lazy.py) ----
    read_n,       \* self.read_n
    ss_generator, \* the lines handed to __call__
    ss_pc,        \* where the __call__ generator is suspended
    ss_idx,       \* lines of ss_generator the loop has taken
    ss_pending,   \* sentences of the current batch not yet yielded
    ss_calls,     \* the batches handed to self.segmenter so far
    ss_out,       \* the sentences __call__ has yielded so far
    \* ---- itertools.tee as the stores use it (text/datasets.py) ----
    tee_input,    \* the tuples the generator handed over holds at the start
    tee_source,   \* the tuples it has not yet given out
    tee_advanced, \* how often it has been advanced
    tee_deques,   \* tee(generator, nb_streams + 1): per view, the tuples waiting
    view_deques,  \* tee(generator, 3) of each stream: per pass, the sentences waiting
    tee_seen,     \* the tuples iterators[0] has given out
    view_seen     \* per stream and pass, the sentences given out

bvars == <<max_length, split, nb_parts, generator, reiterable, pc_call, idx,
           pending, out, pc_join, join_i, join_parts, join_read, join_out>>

svars == <<fs, corpus, last, origin, corpora, plast>>

pvars == <<pipe_pre, pipe_post, pipe_line, pipe_mid, pipe_out>>

qvars == <<read_n, ss_generator, ss_pc, ss_idx, ss_pending, ss_calls, ss_out>>

\* the variables of the other classes
tvars == <<tee_input, tee_source, tee_advanced, tee_deques, view_deques,
           tee_seen, view_seen>>

ovars == <<pvars, qvars, tvars>>

vars == <<bvars, svars, ovars>>

----------------------------------------------------------------------------
(* Bounds of the model *)

\* longest input stream handed to EnsureMaxLength
MaxLines == 2
\* most tokens on one input line
MaxTok == 3
\* largest max_length an instance is configured with
MaxLength == 2

----------------------------------------------------------------------------
(* Strings *)

IsSpace(c) == c \in {" ", "\n"}

RECURSIVE lstrip(_)
lstrip(s) == IF s # <<>> /\ IsSpace(Head(s)) THEN lstrip(Tail(s)) ELSE s

RECURSIVE rstrip(_)
rstrip(s) ==
    IF s # <<>> /\ IsSpace(s[Len(s)]) THEN rstrip(SubSeq(s, 1, Len(s) - 1)) ELSE s

\* str.strip()
strip(s) == rstrip(lstrip(s))

\* str.split(): the maximal runs of non-whitespace characters; cur is the run
\* being read, acc the runs already closed
RECURSIVE SplitFrom(_, _, _)
SplitFrom(s, cur, acc) ==
    IF s = <<>>
    THEN IF cur = <<>> THEN acc ELSE Append(acc, cur)
    ELSE IF IsSpace(Head(s))
         THEN SplitFrom(Tail(s), <<>>, IF cur = <<>> THEN acc ELSE Append(acc, cur))
         ELSE SplitFrom(Tail(s), Append(cur, Head(s)), acc)

str_split(s) == SplitFrom(s, <<>>, <<>>)

\* sep.join(xs)
RECURSIVE JoinWith(_, _)
JoinWith(xs, sep) ==
    IF xs = <<>> THEN <<>>
    ELSE IF Len(xs) = 1 THEN xs[1]
    ELSE xs[1] \o sep \o JoinWith(Tail(xs), sep)

\* ' '.join(xs)
str_join(xs) == JoinWith(xs, <<" ">>)

RECURSIVE Sum(_)
Sum(s) == IF s = <<>> THEN 0 ELSE Head(s) + Sum(Tail(s))

----------------------------------------------------------------------------
(* The input lines of the model *)

Alphabet == <<"a", "b", "c", "d", "e", "f", "g", "h">>

\* the line of n tokens: pairwise different, so that a reordering shows
TokensOf(n) == [i \in 1..n |-> <<Alphabet[i]>>]

\* a line of n tokens as a file or an earlier stage may hand it over:
\* "plain" single-spaced, "nl" with its line end, "wide" with a leading blank
\* and two blanks between tokens
Render(n, form) ==
    CASE form = "plain" -> str_join(TokensOf(n))
      [] form = "nl"    -> str_join(TokensOf(n)) \o <<"\n">>
      [] form = "wide"  -> <<" ">> \o JoinWith(TokensOf(n), <<" ", " ">>)

Lines == {Render(n, form) : n \in 0..MaxTok, form \in {"plain", "nl", "wide"}}

Inputs == UNION {[1..n -> Lines] : n \in 0..MaxLines}

----------------------------------------------------------------------------
(* The classes that are not looked at *)

\* no PrePostPipeline in use
PipelineIdle ==
    /\ pipe_pre = <<>>
    /\ pipe_post = <<>>
    /\ pipe_line = <<>>
    /\ pipe_mid = <<>>
    /\ pipe_out = <<>>

\* no SentenceSplit in use
SentenceSplitIdle ==
    /\ read_n = 1
    /\ ss_generator = <<>>
    /\ ss_pc = "new"
    /\ ss_idx = 0
    /\ ss_pending = <<>>
    /\ ss_calls = <<>>
    /\ ss_out = <<>>

\* no generator being fanned out
TeeIdle ==
    /\ tee_input = <<>>
    /\ tee_source = <<>>
    /\ tee_advanced = 0
    /\ tee_deques = <<>>
    /\ view_deques = <<>>
    /\ tee_seen = <<>>
    /\ view_seen = <<>>

OthersIdle == PipelineIdle /\ SentenceSplitIdle /\ TeeIdle

----------------------------------------------------------------------------
(* EnsureMaxLength *)

RECURSIVE split_list_ge(_, _)
split_list_ge(x, size) ==
    IF size < 0 THEN <<x>>
    ELSE IF Len(x) >= size
         THEN <<SubSeq(x, 1, size)>> \o split_list_ge(SubSeq(x, size + 1, Len(x)), size)
         ELSE <<x>>

\* EnsureMaxLength.split_list(x, size), for size # 0 (size = 0 raises)
RECURSIVE split_list(_, _)
split_list(x, size) ==
    IF size < 0 THEN <<x>>
    ELSE IF Len(x) > size
         THEN <<SubSeq(x, 1, size)>> \o split_list(SubSeq(x, size + 1, Len(x)), size)
         ELSE <<x>>

WithinMax_strict(tokens) == Len(tokens) < max_length

\* the test `len(tokens) <= self.max_length` of __call__
WithinMax(tokens) == Len(tokens) <= max_length

nb_parts_append_none(nb, n) == nb

nb_parts_append_one(nb, n) == Append(nb, 1)

nb_parts_prepend(nb, n) == <<n>> \o nb

\* self.nb_parts.append(n)
nb_parts_append(nb, n) == Append(nb, n)

\* One resumption of the `for line in generator` loop of __call__, with i lines
\* already taken and ledger nb: runs to the next yield, to the end of the
\* stream, or to the ValueError of split_list.
RECURSIVE RunLoop(_, _)
RunLoop(i, nb) ==
    IF i >= Len(generator)
    THEN [idx |-> i, pending |-> <<>>, nb |-> nb, pc |-> "done", yielded |-> <<>>]
    ELSE LET line   == strip(generator[i + 1])
             tokens == str_split(line)
         IN  IF WithinMax(tokens)
             THEN [idx |-> i + 1, pending |-> <<>>, nb |-> nb_parts_append(nb, 1),
                   pc |-> "loop", yielded |-> <<line>>]
             ELSE IF split
             THEN IF max_length = 0
                  THEN [idx |-> i + 1, pending |-> <<>>, nb |-> nb,
                        pc |-> "raised", yielded |-> <<>>]
                  ELSE LET parts == split_list(tokens, max_length)
                       IN  [idx |-> i + 1,
                            pending |-> Tail(parts),
                            nb |-> nb_parts_append(nb, Len(parts)),
                            pc |-> "parts",
                            yielded |-> <<str_join(Head(parts))>>]
             ELSE RunLoop(i + 1, nb)

\* What follows `yield from generator` once it is exhausted: the for loop
\* iterates the same object again, from its start when it is a list, and finds
\* nothing when it is an iterator.
AfterYieldFrom == IF reiterable THEN RunLoop(0, nb_parts)
                  ELSE RunLoop(Len(generator), nb_parts)

\* One next() on the generator made by __call__
CallResume ==
    CASE pc_call = "ready" /\ max_length < 0 /\ generator # <<>> ->
            [idx |-> 1, pending |-> <<>>, nb |-> nb_parts, pc |-> "yield_from",
             yielded |-> <<generator[1]>>]
      [] pc_call = "ready" /\ max_length < 0 /\ generator = <<>> -> AfterYieldFrom
      [] pc_call = "ready" /\ max_length >= 0 -> RunLoop(0, nb_parts)
      [] pc_call = "yield_from" /\ idx < Len(generator) ->
            [idx |-> idx + 1, pending |-> <<>>, nb |-> nb_parts, pc |-> "yield_from",
             yielded |-> <<generator[idx + 1]>>]
      [] pc_call = "yield_from" /\ idx >= Len(generator) -> AfterYieldFrom
      [] pc_call = "loop" -> RunLoop(idx, nb_parts)
      [] pc_call = "parts" /\ pending # <<>> ->
            [idx |-> idx, pending |-> Tail(pending), nb |-> nb_parts, pc |-> "parts",
             yielded |-> <<str_join(Head(pending))>>]
      [] pc_call = "parts" /\ pending = <<>> -> RunLoop(idx, nb_parts)

\* EnsureMaxLength.__init__: stores the configuration and an empty ledger
EnsureMaxLength_init ==
    /\ pc_call = "new"
    /\ pc_call' = "ready"
    /\ nb_parts' = <<>>
    /\ UNCHANGED <<max_length, split, generator, reiterable, idx, pending, out,
                   pc_join, join_i, join_parts, join_read, join_out>>
    /\ UNCHANGED <<svars, ovars>>

\* A consumer (join, a tee buffer, a for loop) pulls the next line of __call__
EnsureMaxLength_call ==
    /\ pc_call \in {"ready", "yield_from", "loop", "parts"}
    /\ LET r == CallResume
       IN  /\ pc_call' = r.pc
           /\ idx' = r.idx
           /\ nb_parts' = r.nb
           /\ pending' = r.pending
           /\ out' = out \o r.yielded
    /\ UNCHANGED <<max_length, split, generator, reiterable,
                   pc_join, join_i, join_parts, join_read, join_out>>
    /\ UNCHANGED <<svars, ovars>>

\* join's pass-through test
JoinPassThrough == max_length < 0 \/ ~split

PartsComplete_stuck(parts, i) == Len(parts) = nb_parts[1]

\* join's test that the buffered parts make up the line under the cursor
PartsComplete(parts, i) == Len(parts) = nb_parts[i + 1]

\* join takes the next line of its input, which is the output of __call__
\* (directly or through a buffer), and runs to its next pull
EnsureMaxLength_join_pull ==
    /\ pc_join \in {"ready", "run"}
    /\ join_read < Len(out)
    /\ LET line == out[join_read + 1]
       IN  /\ join_read' = join_read + 1
           /\ IF JoinPassThrough
              THEN /\ join_out' = Append(join_out, line)
                   /\ pc_join' = "run"
                   /\ UNCHANGED <<join_i, join_parts>>
              ELSE LET parts == Append(join_parts, line)
                   IN  IF join_i >= Len(nb_parts)
                       THEN \* nb_parts[i] raises IndexError
                            /\ pc_join' = "raised"
                            /\ join_parts' = parts
                            /\ UNCHANGED <<join_i, join_out>>
                       ELSE IF PartsComplete(parts, join_i)
                       THEN /\ join_i' = join_i + 1
                            /\ join_out' = Append(join_out, str_join(parts))
                            /\ join_parts' = <<>>
                            /\ pc_join' = "run"
                       ELSE /\ join_parts' = parts
                            /\ pc_join' = "run"
                            /\ UNCHANGED <<join_i, join_out>>
    /\ UNCHANGED <<max_length, split, nb_parts, generator, reiterable, pc_call,
                   idx, pending, out>>
    /\ UNCHANGED <<svars, ovars>>

\* join finds its input exhausted (or broken by the error of __call__)
EnsureMaxLength_join_end ==
    /\ pc_join \in {"ready", "run"}
    /\ join_read = Len(out)
    /\ pc_call \in {"done", "raised"}
    /\ pc_join' = IF pc_call = "done" THEN "done" ELSE "raised"
    /\ UNCHANGED <<max_length, split, nb_parts, generator, reiterable, pc_call,
                   idx, pending, out, join_i, join_parts, join_read, join_out>>
    /\ UNCHANGED <<svars, ovars>>

----------------------------------------------------------------------------
(* The corpus stores *)

\* the state of the stores while only EnsureMaxLength is looked at
StoreIdle ==
    /\ fs = <<>>
    /\ corpus = <<>>
    /\ last = <<>>
    /\ origin = <<>>
    /\ corpora = <<>>
    /\ plast = <<>>

BounderInit ==
    /\ StoreIdle
    /\ OthersIdle
    /\ max_length \in -1..MaxLength
    /\ split \in BOOLEAN
    /\ generator \in Inputs
    /\ reiterable \in BOOLEAN
    /\ nb_parts = <<>>
    /\ pc_call = "new"
    /\ idx = 0
    /\ pending = <<>>
    /\ out = <<>>
    /\ pc_join = "ready"
    /\ join_i = 0
    /\ join_parts = <<>>
    /\ join_read = 0
    /\ join_out = <<>>

BounderNext ==
    \/ EnsureMaxLength_init
    \/ EnsureMaxLength_call
    \/ EnsureMaxLength_join_pull
    \/ EnsureMaxLength_join_end

SpecBounder == BounderInit /\ [][BounderNext]_vars

----------------------------------------------------------------------------
(* Properties of EnsureMaxLength *)

SplitMode == max_length > 0 /\ split
DropMode  == max_length >= 0 /\ ~split

NbTokens(line) == Len(str_split(line))

\* a line that is its own tokens joined by single blanks
SingleSpaced(line) == line = str_join(str_split(line))

\* the lines of s with at most n tokens, in order
RECURSIVE WithinLimit(_, _)
WithinLimit(s, n) ==
    IF s = <<>> THEN <<>>
    ELSE IF NbTokens(Head(s)) <= n
         THEN <<Head(s)>> \o WithinLimit(Tail(s), n)
         ELSE WithinLimit(Tail(s), n)

Stripped(s) == [i \in 1..Len(s) |-> strip(s[i])]

CeilDiv(a, b) == (a + b - 1) \div b

\* the lines __call__ yielded for the k-th ledger entry
PartsOf(k) ==
    LET start == Sum(SubSeq(nb_parts, 1, k - 1))
    IN  SubSeq(out, start + 1, start + nb_parts[k])

\* C1 as stated: in split mode, once join has drained the output of __call__,
\* the joined lines are the input lines, one per input line, in order, each
\* equal to its input line.
C1_RoundTripExact ==
    (SplitMode /\ pc_join = "done") => join_out = generator

\* C1 amended: in split mode join never fails, and once it has drained the
\* output of __call__ it has yielded one line per input line, in order, the
\* i-th with exactly the tokens of the i-th input line, and equal to it
\* whenever the input line is its tokens joined by single blanks.
C1_RoundTripTokens ==
    SplitMode =>
        /\ pc_join # "raised"
        /\ pc_join = "done" =>
            /\ Len(join_out) = Len(generator)
            /\ \A i \in 1..Len(generator) :
                /\ str_split(join_out[i]) = str_split(generator[i])
                /\ SingleSpaced(generator[i]) => join_out[i] = generator[i]

C1_Witness ==
    /\ SplitMode /\ pc_join = "done" /\ Len(generator) >= 2
    /\ NbTokens(generator[1]) > max_length
    /\ SingleSpaced(generator[1])
    /\ nb_parts[1] # nb_parts[2]
    /\ join_out = generator

\* C2 as stated: in drop mode __call__ yields exactly the input lines of at
\* most max_length tokens, unchanged and in order, and the ledger holds one
\* entry of value 1 per yielded line and nothing for a dropped line.
C2_DropExact ==
    DropMode =>
        /\ nb_parts = [i \in 1..Len(out) |-> 1]
        /\ pc_call = "done" => out = WithinLimit(generator, max_length)

\* C2 amended: in drop mode __call__ yields exactly the input lines of at most
\* max_length tokens, each with its leading and trailing whitespace stripped
\* and otherwise unchanged, in order; the ledger holds one entry of value 1 per
\* yielded line and nothing for a dropped line.
C2_DropStripped ==
    DropMode =>
        /\ nb_parts = [i \in 1..Len(out) |-> 1]
        /\ pc_call # "raised"
        /\ pc_call = "done" => out = Stripped(WithinLimit(generator, max_length))

C2_Witness ==
    /\ DropMode /\ pc_call = "done" /\ Len(generator) >= 2
    /\ NbTokens(generator[1]) > max_length
    /\ NbTokens(generator[2]) <= max_length
    /\ generator[2] # strip(generator[2])
    /\ Len(out) = 1 /\ nb_parts = <<1>>

\* C8: in split mode, a line of T > max_length tokens is yielded as
\* ceil(T / max_length) parts, all but the last of exactly max_length tokens,
\* the last of 1..max_length tokens, and the parts joined by single blanks in
\* the order yielded have the tokens of the line.
C8_SplitShape ==
    (SplitMode /\ pc_call = "done") =>
        /\ Len(nb_parts) = Len(generator)
        /\ Len(out) = Sum(nb_parts)
        /\ \A i \in 1..Len(generator) :
            LET T == NbTokens(generator[i])
                n == nb_parts[i]
                parts == PartsOf(i)
            IN  T > max_length =>
                    /\ n = CeilDiv(T, max_length)
                    /\ \A j \in 1..(n - 1) : NbTokens(parts[j]) = max_length
                    /\ NbTokens(parts[n]) \in 1..max_length
                    /\ str_split(str_join(parts)) = str_split(generator[i])

C8_Witness ==
    /\ SplitMode /\ pc_call = "done" /\ generator # <<>>
    /\ max_length = 2
    /\ NbTokens(generator[1]) = 3
    /\ nb_parts[1] = 2
    /\ NbTokens(out[2]) = 1

\* C9: with max_length < 0, __call__ yields every input line exactly once,
\* unchanged and in order, and nothing else, for either value of split and for
\* an iterator or a list as input.
C9_PassThrough ==
    max_length < 0 =>
        /\ Len(out) <= Len(generator)
        /\ out = SubSeq(generator, 1, Len(out))
        /\ pc_call = "done" => out = generator

\* C10: an instance with max_length = 0 is rejected by its constructor, so
\* none is ever constructed, whatever split is.
C10_ZeroRejectedAtConstruction ==
    max_length = 0 => pc_call = "new"

\* C14: whenever join, in an instance that splits, takes a line and looks the
\* ledger up under its cursor, the cursor is below the length of the ledger,
\* however the pulls of join and those of the other consumers of __call__
\* interleave.
C14_JoinBehindLedger ==
    [][(~JoinPassThrough /\ join_read' # join_read) => join_i < Len(nb_parts)]_vars

\* join is in the middle of a split line while __call__ has not finished
C14_Witness ==
    /\ SplitMode
    /\ pc_call = "parts"
    /\ pending # <<>>
    /\ join_i = 1
    /\ join_parts # <<>>
    /\ join_read = Len(out)
    /\ Len(nb_parts) = 2

\* C15 as stated: in every mode, the ledger sums to at least the number of
\* lines __call__ has yielded, and to exactly that number whenever no part
\* of a line is waiting to be yielded.
C15_LedgerSumAnyMode ==
    /\ Sum(nb_parts) >= Len(out)
    /\ pending = <<>> => Sum(nb_parts) = Len(out)

\* C15 amended: with max_length >= 0 (drop mode or split mode) the ledger sums
\* to the number of lines __call__ has yielded plus the parts of the current
\* line still to be yielded: at least the lines yielded at every moment, and
\* exactly the lines yielded once the parts of a line are out. With
\* max_length < 0 the lines passed through have no entry, and the ledger sums
\* to less than the lines yielded as soon as there is one.
C15_LedgerSum ==
    /\ max_length >= 0 => Sum(nb_parts) = Len(out) + Len(pending)
    /\ (max_length < 0 /\ out # <<>>) => Sum(nb_parts) < Len(out)

C15_Witness ==
    /\ SplitMode
    /\ pc_call = "parts"
    /\ Len(pending) = 1
    /\ nb_parts = <<1, 2>>
    /\ Len(out) = 2

\* C16: the ledger changes only by one entry being appended while __call__
\* yields a line; a step of join leaves it as it is; join's cursor is the
\* number of lines join has rebuilt, it moves by one and only when join
\* yields a line, and that line is made of as many lines read as the entry
\* under the cursor says.
C16_LedgerFifo ==
    [][/\ nb_parts' # nb_parts =>
            /\ Len(nb_parts') = Len(nb_parts) + 1
            /\ SubSeq(nb_parts', 1, Len(nb_parts)) = nb_parts
            /\ Len(out') = Len(out) + 1
            /\ <<pc_join, join_i, join_parts, join_read, join_out>>' =
                  <<pc_join, join_i, join_parts, join_read, join_out>>
       /\ ~JoinPassThrough =>
            /\ join_i = Len(join_out)
            /\ join_i' # join_i \/ join_out' # join_out =>
                  /\ join_i' = join_i + 1
                  /\ Len(join_out') = Len(join_out) + 1
                  /\ Len(join_parts) + 1 = nb_parts[join_i + 1]
                  /\ join_parts' = <<>>]_vars

C16_Witness ==
    /\ SplitMode
    /\ pc_join = "done"
    /\ join_i = 2
    /\ nb_parts = <<2, 1>>
    /\ Len(join_out) = 2

----------------------------------------------------------------------------
(* Bounds of the corpus stores *)

\* most sentences (or tuples) a generator yields
MaxSents == 2
\* most tokens of one sentence
MaxSentLen == 2

\* the streams of a parallel corpus: vocabs=[src_vocab, tgt_vocab]
NbStreams == 2

----------------------------------------------------------------------------
(* Vocabulary: token -> id with a reserved id for unknown tokens, and the    *)
(* reverse lookup id -> token                                                *)

UNK == <<"<", "u", "n", "k", ">">>
UnkId == 0

\* a token no vocabulary knows
OOV == <<"z">>

\* the tokens of the vocabulary of stream k, in id order; the vocabularies of
\* different streams give different ids to the same token
VocabTokens(k) ==
    <<UNK>> \o [i \in 1..Len(Alphabet) |->
                  <<Alphabet[((i - 1 + k) % Len(Alphabet)) + 1]>>]

\* vocabs, the list of vocabularies, one per stream
vocabs == [k \in 0..(NbStreams - 1) |-> VocabTokens(k)]

\* vocab[word]
vocab_id(k, word) ==
    IF \E i \in 1..Len(vocabs[k]) : vocabs[k][i] = word
    THEN (CHOOSE i \in 1..Len(vocabs[k]) : vocabs[k][i] = word) - 1
    ELSE UnkId

\* vocab.word(t)
vocab_word(k, t) == vocabs[k][t + 1]

----------------------------------------------------------------------------
(* Files *)

\* str(i) of a stream index
Digits == <<"0", "1", "2", "3", "4">>
StreamSuffix(i) == <<Digits[i + 1]>>

\* the output_path of the single-stream store, and the prefix of the parallel one
StorePath == <<"c">>
ParallelPrefix == <<"p">>

\* f"{output_path}{i}"
StreamPath(i) == ParallelPrefix \o StreamSuffix(i)

Paths == {StorePath} \cup {StreamPath(i) : i \in 0..(NbStreams - 1)}

NoFile == <<>>
IsFile(f) == f # NoFile
Content(f) == f[1]

----------------------------------------------------------------------------
(* MemMappedCorpus *)

make_offsets_from_one(lengths) ==
    [i \in 1..Len(lengths) |-> Sum(SubSeq(lengths, 1, i))]

\* MemMappedCorpus.make_offsets: offsets[i] is the sum of the lengths before i
make_offsets(lengths) ==
    [i \in 1..Len(lengths) |-> Sum(SubSeq(lengths, 1, i - 1))]

\* MemMappedCorpus.map_tokens_to_ids, for the vocabulary of stream k
map_tokens_to_ids(sentences, k) ==
    [i \in 1..Len(sentences) |->
        [j \in 1..Len(sentences[i]) |-> vocab_id(k, sentences[i][j])]]

\* mmap[offset:offset + seq_len] = seq, for Len(seq) = seq_len
SliceAssign(mmap, offset, seq_len, seq) ==
    [p \in 1..Len(mmap) |->
        IF p > offset /\ p <= offset + seq_len THEN seq[p - offset] ELSE mmap[p]]

\* the loop of construct_memmap over zip(generator, lengths), from pair k on
RECURSIVE PopulateFrom(_, _, _, _, _, _)
PopulateFrom(k, seqs, lengths, offset, mmap, offsets) ==
    IF k > Len(seqs) \/ k > Len(lengths)
    THEN [mmap |-> mmap, offsets |-> offsets]
    ELSE PopulateFrom(k + 1, seqs, lengths, offset + lengths[k],
                      SliceAssign(mmap, offset, lengths[k], seqs[k]),
                      Append(offsets, offset))

RECURSIVE PopulateFrom_no_advance(_, _, _, _, _, _)
PopulateFrom_no_advance(k, seqs, lengths, offset, mmap, offsets) ==
    IF k > Len(seqs) \/ k > Len(lengths)
    THEN [mmap |-> mmap, offsets |-> offsets]
    ELSE PopulateFrom_no_advance(k + 1, seqs, lengths, offset,
                                 SliceAssign(mmap, offset, lengths[k], seqs[k]),
                                 Append(offsets, offset))

construct_memmap_no_advance(seqs, lengths) ==
    PopulateFrom_no_advance(1, seqs, lengths, 0, [p \in 1..Sum(lengths) |-> 0], <<>>)

\* MemMappedCorpus.construct_memmap: the flat id array written to the memmap
\* file, and the offsets returned
construct_memmap(seqs, lengths) ==
    PopulateFrom(1, seqs, lengths, 0, [p \in 1..Sum(lengths) |-> 0], <<>>)

ReuseTest_whenever_present(reuse, files) ==
    IsFile(files.lengths) /\ IsFile(files.memmap)

\* the test of __init__ that chooses between loading and constructing
ReuseTest(reuse, files) ==
    reuse /\ IsFile(files.lengths) /\ IsFile(files.memmap)

\* MemMappedCorpus.__init__ on the files of its output_path, with the
\* vocabulary of stream k: the object, the files it leaves, the elements it
\* pulled from its generator, and the path it took
MemMappedCorpus_new(sentences, files, k, reuse) ==
    IF ReuseTest(reuse, files)
    THEN LET lengths == Content(files.lengths)
         IN  [files |-> files, load |-> TRUE,
              obj |-> [lengths |-> lengths,
                       mmap |-> Content(files.memmap),
                       offsets |-> make_offsets(lengths),
                       vocab |-> k],
              pulled |-> 0]
    ELSE LET lengths == [i \in 1..Len(sentences) |-> Len(sentences[i])]
             built == construct_memmap(map_tokens_to_ids(sentences, k), lengths)
             written == [lengths |-> <<lengths>>, memmap |-> <<built.mmap>>]
         IN  [files |-> written, load |-> FALSE,
              obj |-> [lengths |-> lengths,
                       mmap |-> Content(written.memmap),
                       offsets |-> built.offsets,
                       vocab |-> k],
              pulled |-> Len(sentences)]

\* MemMappedCorpus.__len__
corpus_len(c) == Len(c.lengths)

\* arr[start:stop] for 0 <= start: the elements at the positions start..stop-1
\* that exist
Slice(arr, start, stop) ==
    LET hi == IF stop < Len(arr) THEN stop ELSE Len(arr)
    IN  IF start >= hi THEN <<>> ELSE [p \in 1..(hi - start) |-> arr[start + p]]

\* MemMappedCorpus.as_memmap(idx), idx counted from 0
as_memmap(c, i) ==
    LET offset == c.offsets[i + 1]
    IN  Slice(c.mmap, offset, offset + c.lengths[i + 1])

\* MemMappedCorpus.as_string(idx)
as_string(c, i) ==
    LET ids == as_memmap(c, i)
    IN  str_join([p \in 1..Len(ids) |-> vocab_word(c.vocab, ids[p])])

----------------------------------------------------------------------------
(* The generators handed to the stores *)

Kinds == {"up", "down", "gap", "unk"}

\* the number of tokens of the j-th sentence of a corpus of a kind: rising
\* from 1, falling from MaxSentLen, rising from 0 (an empty first line), and,
\* for "unk", never 0
ShapeLen(kind, j) ==
    CASE kind = "up"   -> j % (MaxSentLen + 1)
      [] kind = "down" -> (MaxSentLen + 1 - (j % (MaxSentLen + 1))) % (MaxSentLen + 1)
      [] kind = "gap"  -> (j - 1) % (MaxSentLen + 1)
      [] kind = "unk"  -> 1 + (j % MaxSentLen)

\* the sentence at position k of the i-th tuple of a corpus of a kind: its
\* tokens differ from those of its neighbours, and the last one of an "unk"
\* sentence is unknown to every vocabulary
Sentence(kind, i, k) ==
    LET n == ShapeLen(kind, i + k)
        toks == [p \in 1..n |-> <<Alphabet[((i + k + p) % Len(Alphabet)) + 1]>>]
    IN  IF kind = "unk" THEN [toks EXCEPT ![n] = OOV] ELSE toks

\* the generator of K tuples of NbStreams sentences each
TupleGenerator(kind, K) ==
    [i \in 1..K |-> [k \in 1..NbStreams |-> Sentence(kind, i, k - 1)]]

iterate_view_first(tuples, stream) ==
    [i \in 1..Len(tuples) |-> tuples[i][1]]

\* MemMappedCorpus.iterate_view(generator, stream): position stream of every tuple
iterate_view(tuples, stream) ==
    [i \in 1..Len(tuples) |-> tuples[i][stream + 1]]

NbTokensIn(sentences) == Sum([i \in 1..Len(sentences) |-> Len(sentences[i])])

\* every stream of a corpus holds at least one token: numpy maps no empty file
TupleGenerators ==
    {g \in {TupleGenerator(kind, K) : kind \in Kinds, K \in 1..MaxSents} :
        \A k \in 0..(NbStreams - 1) : NbTokensIn(iterate_view(g, k)) > 0}

\* the generators of sentences handed to the single-stream store
Generators ==
    {g \in {iterate_view(TupleGenerator(kind, K), 0) : kind \in Kinds, K \in 1..MaxSents} :
        NbTokensIn(g) > 0}

----------------------------------------------------------------------------
(* Actions of the single-stream store *)

\* MemMappedCorpus(generator, StorePath, vocab, reuse=reuse)
MemMappedCorpus_init ==
    \E g \in Generators, reuse \in BOOLEAN :
        \E r \in {MemMappedCorpus_new(g, fs[StorePath], 0, reuse)} :
            /\ corpus' = <<r.obj>>
            /\ fs' = [fs EXCEPT ![StorePath] = r.files]
            /\ last' = <<[generator |-> g, reuse |-> reuse, load |-> r.load,
                          pulled |-> r.pulled, before |-> fs[StorePath],
                          prior |-> origin]>>
            /\ origin' = IF r.load THEN origin
                         ELSE <<[generator |-> g,
                                 reuse |-> reuse,
                                 len |-> corpus_len(r.obj),
                                 strings |-> [i \in 1..corpus_len(r.obj) |->
                                                as_string(r.obj, i - 1)],
                                 touched |-> FALSE]>>
            /\ UNCHANGED <<corpora, plast>>
            /\ UNCHANGED <<bvars, ovars>>

\* one artifact of the single-stream store is deleted from outside
ExternalDelete ==
    \E which \in {"lengths", "memmap"} :
        /\ IsFile(fs[StorePath][which])
        /\ fs' = [fs EXCEPT ![StorePath][which] = NoFile]
        /\ origin' = IF origin = <<>> THEN origin
                     ELSE <<[origin[1] EXCEPT !.touched = TRUE]>>
        /\ UNCHANGED <<corpus, last, corpora, plast>>
        /\ UNCHANGED <<bvars, ovars>>

\* itertools.tee(generator, n): how far the shared source has been advanced
\* once the views at the given positions have been read
tee_pulled(positions) ==
    IF positions = <<>> THEN 0
    ELSE CHOOSE m \in {positions[i] : i \in 1..Len(positions)} :
            \A i \in 1..Len(positions) : positions[i] <= m

\* MemMappedParallelCorpus(generator, ParallelPrefix, vocabs, reuse=reuse):
\* one MemMappedCorpus per stream, each on its own view and its own path
MemMappedParallelCorpus_init ==
    \E g \in TupleGenerators, reuse \in BOOLEAN :
        \E rs \in {[i \in 1..NbStreams |->
                      MemMappedCorpus_new(iterate_view(g, i - 1),
                                          fs[StreamPath(i - 1)], i - 1, reuse)]} :
            /\ corpora' = [i \in 1..NbStreams |-> rs[i].obj]
            /\ fs' = [p \in Paths |->
                        IF \E i \in 1..NbStreams : p = StreamPath(i - 1)
                        THEN rs[CHOOSE i \in 1..NbStreams : p = StreamPath(i - 1)].files
                        ELSE fs[p]]
            /\ plast' = <<[generator |-> g,
                           reuse |-> reuse,
                           load |-> [i \in 1..NbStreams |-> rs[i].load],
                           pulled |-> tee_pulled([i \in 1..NbStreams |-> rs[i].pulled])]>>
            /\ UNCHANGED <<corpus, last, origin>>
            /\ UNCHANGED <<bvars, ovars>>

\* one artifact of one stream of the parallel store is deleted from outside
ExternalDeleteStream ==
    \E k \in 0..(NbStreams - 1), which \in {"lengths", "memmap"} :
        /\ IsFile(fs[StreamPath(k)][which])
        /\ fs' = [fs EXCEPT ![StreamPath(k)][which] = NoFile]
        /\ UNCHANGED <<corpus, last, origin, corpora, plast>>
        /\ UNCHANGED <<bvars, ovars>>

\* EnsureMaxLength while only the stores are looked at
BounderIdle ==
    /\ max_length = -1
    /\ split = FALSE
    /\ generator = <<>>
    /\ reiterable = FALSE
    /\ nb_parts = <<>>
    /\ pc_call = "new"
    /\ idx = 0
    /\ pending = <<>>
    /\ out = <<>>
    /\ pc_join = "ready"
    /\ join_i = 0
    /\ join_parts = <<>>
    /\ join_read = 0
    /\ join_out = <<>>

StoreInit ==
    /\ BounderIdle
    /\ OthersIdle
    /\ fs = [p \in Paths |-> [lengths |-> NoFile, memmap |-> NoFile]]
    /\ corpus = <<>>
    /\ last = <<>>
    /\ origin = <<>>
    /\ corpora = <<>>
    /\ plast = <<>>

StoreNext ==
    \/ MemMappedCorpus_init
    \/ ExternalDelete

SpecStore == StoreInit /\ [][StoreNext]_vars

ParallelNext ==
    \/ MemMappedParallelCorpus_init
    \/ ExternalDeleteStream

SpecParallel == StoreInit /\ [][ParallelNext]_vars

----------------------------------------------------------------------------
(* Properties of the single-stream store *)

Known(k, word) == \E i \in 1..Len(vocabs[k]) : vocabs[k][i] = word

AllKnown(k, sentence) == \A j \in 1..Len(sentence) : Known(k, sentence[j])

\* the ids of the sentences one after the other
RECURSIVE Flatten(_)
Flatten(seqs) == IF seqs = <<>> THEN <<>> ELSE Head(seqs) \o Flatten(Tail(seqs))

Built == last # <<>> /\ ~last[1].load

\* C3 as stated: after a build, len() is the number of generated lines and
\* as_string(i) is the i-th generated line joined by single blanks, for every
\* i and any generator.
C3_StoreRoundTripAny ==
    Built =>
        /\ corpus_len(corpus[1]) = Len(last[1].generator)
        /\ \A i \in 0..(corpus_len(corpus[1]) - 1) :
            as_string(corpus[1], i) = str_join(last[1].generator[i + 1])

\* C3 amended: after a build from a generator of at least one token, len() is
\* the number of generated lines, and as_string(i) is the i-th generated line
\* joined by single blanks for every line whose tokens the vocabulary knows;
\* a token it does not know reads back as the unknown token, the others of its
\* line as themselves.
C3_StoreRoundTripKnown ==
    Built =>
        /\ corpus_len(corpus[1]) = Len(last[1].generator)
        /\ \A i \in 0..(corpus_len(corpus[1]) - 1) :
            LET line == last[1].generator[i + 1]
            IN  /\ AllKnown(0, line) => as_string(corpus[1], i) = str_join(line)
                /\ as_string(corpus[1], i) =
                     str_join([j \in 1..Len(line) |->
                                 IF Known(0, line[j]) THEN line[j] ELSE UNK])

C3_Witness ==
    /\ Built
    /\ corpus_len(corpus[1]) = 2
    /\ Len(last[1].generator[1]) = 2
    /\ Len(last[1].generator[2]) = 1
    /\ AllKnown(0, last[1].generator[1])
    /\ as_string(corpus[1], 1) = str_join(last[1].generator[2])

\* the construction before which a build with reuse = false had written the
\* artifacts, untouched since
ReopenedAfterBuild ==
    /\ last # <<>>
    /\ last[1].reuse
    /\ last[1].prior # <<>>
    /\ ~last[1].prior[1].reuse
    /\ ~last[1].prior[1].touched

\* C4: a store constructed with reuse = true on the artifacts of an earlier
\* build with reuse = false has the len() and the as_string(i) of that build,
\* and pulls nothing from its own generator, whatever that generator holds.
C4_ReuseEquivalence ==
    ReopenedAfterBuild =>
        /\ last[1].pulled = 0
        /\ corpus_len(corpus[1]) = last[1].prior[1].len
        /\ \A i \in 0..(corpus_len(corpus[1]) - 1) :
            as_string(corpus[1], i) = last[1].prior[1].strings[i + 1]

C4_Witness ==
    /\ ReopenedAfterBuild
    /\ last[1].generator # last[1].prior[1].generator
    /\ Len(last[1].generator) # Len(last[1].prior[1].generator)
    /\ corpus_len(corpus[1]) = 2
    /\ as_string(corpus[1], 0) # as_string(corpus[1], 1)

BothPresent(files) == IsFile(files.lengths) /\ IsFile(files.memmap)

\* C5: a construction loads if and only if reuse is true and both artifacts
\* exist; loading pulls nothing from the generator and leaves every artifact
\* as it was; otherwise the construction pulls the whole generator and writes
\* both artifacts anew from it.
C5_BuildOrReuse ==
    [][last' # last =>
        LET l == last'[1]
            ids == map_tokens_to_ids(l.generator, 0)
        IN  /\ l.load <=> (l.reuse /\ BothPresent(fs[StorePath]))
            /\ l.load => (l.pulled = 0 /\ fs' = fs)
            /\ ~l.load =>
                /\ l.pulled = Len(l.generator)
                /\ fs'[StorePath].lengths =
                     <<[i \in 1..Len(ids) |-> Len(ids[i])]>>
                /\ fs'[StorePath].memmap = <<Flatten(ids)>>
                /\ \A p \in Paths \ {StorePath} : fs'[p] = fs[p]]_vars

\* a rebuild forced by a partial pair under reuse = true, over other content
C5_Witness ==
    /\ last # <<>>
    /\ last[1].reuse
    /\ ~last[1].load
    /\ IsFile(last[1].before.lengths) # IsFile(last[1].before.memmap)
    /\ last[1].pulled = Len(last[1].generator)
    /\ last[1].prior # <<>>
    /\ last[1].prior[1].generator # last[1].generator
    /\ BothPresent(fs[StorePath])

----------------------------------------------------------------------------
(* Properties of the parallel store *)

AllBuilt == plast # <<>> /\ \A k \in 1..NbStreams : ~plast[1].load[k]

\* C6: after a parallel corpus is built from a generator of K tuples, every
\* component store has len() = K and as_memmap(i) of store k is the id
\* sequence of position k of the i-th tuple.
C6_ParallelAlignment ==
    AllBuilt =>
        \A k \in 1..NbStreams :
            /\ corpus_len(corpora[k]) = Len(plast[1].generator)
            /\ \A i \in 1..Len(plast[1].generator) :
                as_memmap(corpora[k], i - 1) =
                    [j \in 1..Len(plast[1].generator[i][k]) |->
                        vocab_id(k - 1, plast[1].generator[i][k][j])]

C6_Witness ==
    /\ AllBuilt
    /\ Len(plast[1].generator) = 2
    /\ as_memmap(corpora[1], 1) # as_memmap(corpora[2], 1)
    /\ as_memmap(corpora[1], 0) # as_memmap(corpora[1], 1)
    /\ Len(as_memmap(corpora[2], 0)) = 2

\* C7: whatever the constructions and the artifacts present before them, all
\* component stores of the constructed parallel corpus have the same len().
C7_SameLineCount ==
    plast # <<>> =>
        \A k \in 1..NbStreams : corpus_len(corpora[k]) = corpus_len(corpora[1])

----------------------------------------------------------------------------
(* Constructions that are cut short *)

\* MemMappedCorpus.__init__ on its constructing path, cut short after np.save
\* has written the lengths and before construct_memmap creates the memmap
\* file: the lengths are those of the generator, the memmap file is the one
\* that was there, and no object is returned
MemMappedCorpus_init_cut ==
    \E g \in Generators, reuse \in BOOLEAN :
        /\ ~ReuseTest(reuse, fs[StorePath])
        /\ fs' = [fs EXCEPT ![StorePath].lengths =
                                <<[i \in 1..Len(g) |-> Len(g[i])]>>]
        /\ origin' = IF origin = <<>> THEN origin
                     ELSE <<[origin[1] EXCEPT !.touched = TRUE]>>
        /\ UNCHANGED <<corpus, last, corpora, plast>>
        /\ UNCHANGED <<bvars, ovars>>

CutNext ==
    \/ MemMappedCorpus_init
    \/ ExternalDelete
    \/ MemMappedCorpus_init_cut

SpecStoreCut == StoreInit /\ [][CutNext]_vars

\* the pair of artifacts a construction found does not fit together
Mismatched(files) ==
    /\ BothPresent(files)
    /\ Sum(Content(files.lengths)) # Len(Content(files.memmap))

\* C11 as stated: a construction on the reuse path that found a length index
\* whose sum differs from the element count of the id array returns no store
\* object, so every store returned on the reuse path was loaded from a pair
\* that fits together.
C11_IntegrityCheckedAtLoad ==
    (last # <<>> /\ last[1].load) => ~Mismatched(last[1].before)

\* C17 as stated: every constructed store of n lines, built or loaded, has
\* offset[0] = 0, offset[i] + length[i] = offset[i+1] for i < n-1, and
\* offset[n-1] + length[n-1] equal to the element count of the id array.
C17_OffsetInvariant ==
    last # <<>> =>
        LET c == corpus[1]
            n == corpus_len(c)
        IN  n > 0 =>
              /\ c.offsets[1] = 0
              /\ \A i \in 1..(n - 1) : c.offsets[i] + c.lengths[i] = c.offsets[i + 1]
              /\ c.offsets[n] + c.lengths[n] = Len(c.mmap)

----------------------------------------------------------------------------
(* PrePostPipeline *)

\* most modules in one list of a pipeline
MaxSteps == 2

\* the lines handed to a pipeline
PipeLines == {<<"x">>, <<"y">>, <<"z">>}

\* a module is a callable from lines to lines; these are the ones that have
\* an inverse
Modules ==
    {f \in [PipeLines -> PipeLines] : \A a, b \in PipeLines : f[a] = f[b] => a = b}

ModuleLists == UNION {[1..n -> Modules] : n \in 0..MaxSteps}

PrePostPipeline_post_reversed(modules, line, k) ==
    LET RECURSIVE Back(_, _)
        Back(l, n) == IF n = 0 THEN l ELSE Back(modules[n][l], n - 1)
    IN  Back(line, Len(modules))

\* the loop of PrePostPipeline.pre over self._pre, from module k on
RECURSIVE PrePostPipeline_pre(_, _, _)
PrePostPipeline_pre(modules, line, k) ==
    IF k > Len(modules) THEN line
    ELSE PrePostPipeline_pre(modules, modules[k][line], k + 1)

\* the loop of PrePostPipeline.post over self._post, from module k on
RECURSIVE PrePostPipeline_post(_, _, _)
PrePostPipeline_post(modules, line, k) ==
    IF k > Len(modules) THEN line
    ELSE PrePostPipeline_post(modules, modules[k][line], k + 1)

\* pipeline.pre(line)
CallPre ==
    \E line \in PipeLines :
        /\ pipe_line' = <<line>>
        /\ pipe_mid' = <<PrePostPipeline_pre(pipe_pre, line, 1)>>
        /\ pipe_out' = <<>>
        /\ UNCHANGED <<pipe_pre, pipe_post>>
        /\ UNCHANGED <<bvars, svars, qvars, tvars>>

\* pipeline.post(pipeline.pre(line))
CallPost ==
    /\ pipe_mid # <<>>
    /\ pipe_out = <<>>
    /\ pipe_out' = <<PrePostPipeline_post(pipe_post, pipe_mid[1], 1)>>
    /\ UNCHANGED <<pipe_pre, pipe_post, pipe_line, pipe_mid>>
    /\ UNCHANGED <<bvars, svars, qvars, tvars>>

\* PrePostPipeline(pre, post), for any two lists of modules
PipelineInit ==
    /\ BounderIdle
    /\ StoreIdle
    /\ SentenceSplitIdle
    /\ TeeIdle
    /\ pipe_pre \in ModuleLists
    /\ pipe_post \in ModuleLists
    /\ pipe_line = <<>>
    /\ pipe_mid = <<>>
    /\ pipe_out = <<>>

PipelineNext ==
    \/ CallPre
    \/ CallPost

SpecPipeline == PipelineInit /\ [][PipelineNext]_vars

----------------------------------------------------------------------------
(* Properties of PrePostPipeline *)

Inverse(f) == [b \in PipeLines |-> CHOOSE a \in PipeLines : f[a] = b]

Reverse(s) == [i \in 1..Len(s) |-> s[Len(s) + 1 - i]]

\* the line after the first n modules of a list, one after the other
RECURSIVE After(_, _, _)
After(modules, line, n) ==
    IF n = 0 THEN line ELSE modules[n][After(modules, line, n - 1)]

\* the pipeline holds the steps in step order: its i-th post module undoes
\* its i-th pre module
StepOrder ==
    /\ Len(pipe_post) = Len(pipe_pre)
    /\ \A i \in 1..Len(pipe_pre) : pipe_post[i] = Inverse(pipe_pre[i])

\* the post list was handed over in undoing order: its i-th module undoes the
\* i-th pre module counted from the end
UndoOrder ==
    /\ Len(pipe_post) = Len(pipe_pre)
    /\ \A i \in 1..Len(pipe_pre) :
          pipe_post[i] = Inverse(pipe_pre[Len(pipe_pre) + 1 - i])

\* C12 as stated: post applies the post transforms in reverse list order, and
\* a pipeline that holds, step by step, a pre transform and its inverse as
\* post transform gives post(pre(line)) = line.
C12_StackDiscipline ==
    pipe_out # <<>> =>
        /\ pipe_out[1] = After(Reverse(pipe_post), pipe_mid[1], Len(pipe_post))
        /\ StepOrder => pipe_out = pipe_line

\* C12 amended: pre applies the modules of the pre list in list order and
\* post applies the modules of the post list in list order as well, so that
\* post(pre(line)) = line whenever the post list holds the inverses of the
\* pre modules in the reverse of their order.
C12_PostInListOrder ==
    /\ pipe_mid # <<>> =>
          pipe_mid[1] = After(pipe_pre, pipe_line[1], Len(pipe_pre))
    /\ pipe_out # <<>> =>
          /\ pipe_out[1] = After(pipe_post, pipe_mid[1], Len(pipe_post))
          /\ UndoOrder => pipe_out = pipe_line

C12_Witness ==
    /\ pipe_out # <<>>
    /\ UndoOrder
    /\ ~StepOrder
    /\ Len(pipe_pre) = 2
    /\ pipe_mid # pipe_line
    /\ pipe_out = pipe_line
    /\ After(Reverse(pipe_post), pipe_mid[1], Len(pipe_post)) # pipe_line[1]

----------------------------------------------------------------------------
(* SentenceSplit *)

\* longest input stream handed to SentenceSplit
MaxSplitLines == 3
\* largest read_n an instance is configured with
MaxReadN == 2

\* a line of one sentence, a line of two, a line of three, and a blank line
SplitLines ==
    {<<"a">>, <<"a", ".", "b">>, <<"a", ".", "b", ".", "c">>, <<" ">>}

SplitInputs == UNION {[1..n -> SplitLines] : n \in 0..MaxSplitLines}

\* the sentences of one line: a sentence ends with its full stop; cur is the
\* sentence being read, acc the sentences already closed
RECURSIVE SentencesFrom(_, _, _)
SentencesFrom(s, cur, acc) ==
    IF s = <<>>
    THEN IF cur = <<>> THEN acc ELSE Append(acc, cur)
    ELSE IF Head(s) = "."
         THEN SentencesFrom(Tail(s), <<>>, Append(acc, Append(cur, ".")))
         ELSE SentencesFrom(Tail(s), Append(cur, Head(s)), acc)

\* the sentence splitter SentenceSegmenter wraps, on a list of lines
splitter(data) == Flatten([i \in 1..Len(data) |-> SentencesFrom(data[i], <<>>, <<>>)])

\* SentenceSegmenter.__call__(data): blank lines are left out, and the
\* splitter is not called on nothing
segmenter(data) ==
    LET kept == SelectSeq(data, LAMBDA l : strip(l) # <<>>)
    IN  IF Len(kept) > 0 THEN splitter(kept) ELSE kept

BatchFull_above(batch) == Len(batch) > read_n

\* the test `len(batch) >= self.read_n` of __call__
BatchFull(batch) == Len(batch) >= read_n

\* the generator hands the sentences of one call of the segmenter over: it
\* yields the first and keeps the others
Hand(i, batch, calls, at) ==
    LET found == segmenter(batch)
    IN  [idx |-> i, pending |-> Tail(found), pc |-> at,
         yielded |-> <<Head(found)>>, calls |-> Append(calls, batch)]

\* One resumption of the `for line in generator` loop of __call__ for
\* read_n > 0, with i lines taken, the local batch and the calls made so far:
\* runs to the next yield or to the end of the generator function.
RECURSIVE ReadLoop(_, _, _)
ReadLoop(i, batch, calls) ==
    IF i >= Len(ss_generator)
    THEN IF Len(batch) > 0 /\ segmenter(batch) # <<>>
         THEN Hand(i, batch, calls, "flush")
         ELSE [idx |-> i, pending |-> <<>>, pc |-> "done", yielded |-> <<>>,
               calls |-> IF Len(batch) > 0 THEN Append(calls, batch) ELSE calls]
    ELSE LET grown == Append(batch, ss_generator[i + 1])
         IN  IF BatchFull(grown)
             THEN IF segmenter(grown) # <<>>
                  THEN Hand(i + 1, grown, calls, "batch")
                  ELSE ReadLoop(i + 1, <<>>, Append(calls, grown))
             ELSE ReadLoop(i + 1, grown, calls)

\* the else branch of __call__: every line in one call
ReadAll ==
    IF segmenter(ss_generator) # <<>>
    THEN Hand(Len(ss_generator), ss_generator, ss_calls, "all")
    ELSE [idx |-> Len(ss_generator), pending |-> <<>>, pc |-> "done",
          yielded |-> <<>>, calls |-> Append(ss_calls, ss_generator)]

\* One next() on the generator made by __call__
SplitResume ==
    CASE ss_pc = "ready" /\ read_n > 0 -> ReadLoop(0, <<>>, ss_calls)
      [] ss_pc = "ready" /\ read_n <= 0 -> ReadAll
      [] ss_pc \in {"batch", "flush", "all"} /\ ss_pending # <<>> ->
            [idx |-> ss_idx, pending |-> Tail(ss_pending), pc |-> ss_pc,
             yielded |-> <<Head(ss_pending)>>, calls |-> ss_calls]
      [] ss_pc = "batch" /\ ss_pending = <<>> -> ReadLoop(ss_idx, <<>>, ss_calls)
      [] ss_pc \in {"flush", "all"} /\ ss_pending = <<>> ->
            [idx |-> ss_idx, pending |-> <<>>, pc |-> "done", yielded |-> <<>>,
             calls |-> ss_calls]

\* SentenceSplit.__init__
SentenceSplit_init ==
    /\ ss_pc = "new"
    /\ ss_pc' = "ready"
    /\ UNCHANGED <<read_n, ss_generator, ss_idx, ss_pending, ss_calls, ss_out>>
    /\ UNCHANGED <<bvars, svars, pvars, tvars>>

\* A consumer pulls the next sentence of __call__
SentenceSplit_call ==
    /\ ss_pc \in {"ready", "batch", "flush", "all"}
    /\ \E r \in {SplitResume} :
        /\ ss_pc' = r.pc
        /\ ss_idx' = r.idx
        /\ ss_pending' = r.pending
        /\ ss_calls' = r.calls
        /\ ss_out' = ss_out \o r.yielded
    /\ UNCHANGED <<read_n, ss_generator>>
    /\ UNCHANGED <<bvars, svars, pvars, tvars>>

SentenceSplitInit ==
    /\ BounderIdle
    /\ StoreIdle
    /\ PipelineIdle
    /\ TeeIdle
    /\ read_n \in -1..MaxReadN
    /\ ss_generator \in SplitInputs
    /\ ss_pc = "new"
    /\ ss_idx = 0
    /\ ss_pending = <<>>
    /\ ss_calls = <<>>
    /\ ss_out = <<>>

SentenceSplitNext ==
    \/ SentenceSplit_init
    \/ SentenceSplit_call

SpecSentenceSplit == SentenceSplitInit /\ [][SentenceSplitNext]_vars

----------------------------------------------------------------------------
(* Properties of SentenceSplit *)

Min(a, b) == IF a < b THEN a ELSE b

\* C13: for read_n > 0 the j-th call of the segmenter gets the lines
\* (j-1)*read_n+1 .. min(j*read_n, M) of the M input lines, so every batch has
\* read_n lines but a last one of M mod read_n, none is empty, and at the end
\* every line has been in exactly one batch; the sentences yielded and those
\* waiting are, in order, the sentences of the batches handed over, and no
\* line of a later batch is taken while sentences wait.
C13_Batching ==
    read_n > 0 =>
        LET M == Len(ss_generator)
        IN  /\ \A j \in 1..Len(ss_calls) :
                  /\ ss_calls[j] # <<>>
                  /\ ss_calls[j] =
                        SubSeq(ss_generator, (j - 1) * read_n + 1, Min(j * read_n, M))
            /\ ss_pc = "done" => Len(ss_calls) = CeilDiv(M, read_n)
            /\ ss_out \o ss_pending =
                  Flatten([j \in 1..Len(ss_calls) |-> segmenter(ss_calls[j])])
            /\ ss_idx = Min(Len(ss_calls) * read_n, M)

C13_Witness ==
    /\ read_n = 2
    /\ Len(ss_generator) = 3
    /\ ss_pc = "done"
    /\ Len(ss_calls) = 2
    /\ Len(ss_calls[2]) = 1
    /\ Len(segmenter(ss_calls[1])) = 3
    /\ Len(ss_out) = 5

----------------------------------------------------------------------------
(* The fan-out of one generator to the streams and their passes *)

\* the iterators tee(generator, 3) returns in MemMappedCorpus.__init__:
\* generator, iterator1 (the length pass), iterator2 (the token pass)
NbPasses == 3

Views == 0..NbStreams
Streams == 0..(NbStreams - 1)
Passes == 0..(NbPasses - 1)

tee_next_unshared(src, deques, v) ==
    IF deques[v] # <<>>
    THEN [src |-> src, deques |-> [deques EXCEPT ![v] = Tail(@)],
          item |-> Head(deques[v]), adv |-> 0]
    ELSE [src |-> Tail(src), deques |-> deques, item |-> Head(src), adv |-> 1]

\* next() on iterator v of itertools.tee over src, for a v whose deque holds
\* something or whose src does: the iterator takes from its deque; when that
\* is empty, src is advanced once and what it gives is put in the deque of
\* every iterator of the tee, from where v takes it at once
tee_next(src, deques, v) ==
    IF deques[v] # <<>>
    THEN [src |-> src, deques |-> [deques EXCEPT ![v] = Tail(@)],
          item |-> Head(deques[v]), adv |-> 0]
    ELSE [src |-> Tail(src),
          deques |-> [w \in DOMAIN deques |->
                        IF w = v THEN deques[w] ELSE Append(deques[w], Head(src))],
          item |-> Head(src), adv |-> 1]

\* next() on self.generator of the parallel corpus, iterators[0]
MemMappedParallelCorpus_generator_next ==
    /\ tee_deques[0] # <<>> \/ tee_source # <<>>
    /\ \E r \in {tee_next(tee_source, tee_deques, 0)} :
        /\ tee_source' = r.src
        /\ tee_deques' = r.deques
        /\ tee_advanced' = tee_advanced + r.adv
        /\ tee_seen' = Append(tee_seen, r.item)
    /\ UNCHANGED <<tee_input, view_deques, view_seen>>
    /\ UNCHANGED <<bvars, svars, pvars, qvars>>

\* next() on pass j of stream k: on self.generator of its MemMappedCorpus, on
\* iterator1 or on iterator2. When the deque of the pass is empty, the tee of
\* the stream advances iterate_view(iterators[k + 1], k), which advances
\* iterators[k + 1] and takes position k of the tuple.
MemMappedCorpus_pass_next ==
    \E k \in Streams, j \in Passes :
        IF view_deques[k][j] # <<>>
        THEN /\ view_deques' = [view_deques EXCEPT ![k][j] = Tail(@)]
             /\ view_seen' = [view_seen EXCEPT ![k][j] = Append(@, Head(view_deques[k][j]))]
             /\ UNCHANGED <<tee_input, tee_source, tee_advanced, tee_deques, tee_seen>>
             /\ UNCHANGED <<bvars, svars, pvars, qvars>>
        ELSE /\ tee_deques[k + 1] # <<>> \/ tee_source # <<>>
             /\ \E r \in {tee_next(tee_source, tee_deques, k + 1)} :
                 \E s \in {tee_next(iterate_view(<<r.item>>, k), view_deques[k], j)} :
                    /\ tee_source' = r.src
                    /\ tee_deques' = r.deques
                    /\ tee_advanced' = tee_advanced + r.adv
                    /\ view_deques' = [view_deques EXCEPT ![k] = s.deques]
                    /\ view_seen' = [view_seen EXCEPT ![k][j] = Append(@, s.item)]
             /\ UNCHANGED <<tee_input, tee_seen>>
             /\ UNCHANGED <<bvars, svars, pvars, qvars>>

\* iterators = tee(generator, self.nb_streams + 1), and the tee(generator, 3)
\* of every stream, before anything is pulled
TeeInit ==
    /\ BounderIdle
    /\ StoreIdle
    /\ PipelineIdle
    /\ SentenceSplitIdle
    /\ tee_input \in TupleGenerators
    /\ tee_source = tee_input
    /\ tee_advanced = 0
    /\ tee_deques = [v \in Views |-> <<>>]
    /\ view_deques = [k \in Streams |-> [j \in Passes |-> <<>>]]
    /\ tee_seen = <<>>
    /\ view_seen = [k \in Streams |-> [j \in Passes |-> <<>>]]

TeeNext ==
    \/ MemMappedParallelCorpus_generator_next
    \/ MemMappedCorpus_pass_next

SpecTee == TeeInit /\ [][TeeNext]_vars

----------------------------------------------------------------------------
(* Properties of the fan-out *)

IsPrefix(s, t) == Len(s) <= Len(t) /\ s = SubSeq(t, 1, Len(s))

\* C18: whatever the order of the pulls, what a view or a pass has been given
\* is the start of the source's tuples (of their position k, for the passes
\* of stream k), in source order; every tuple it has not been given yet waits
\* for it in exactly one place, so that it gets each exactly once; and the
\* source has been advanced once per tuple given out by it, never more often
\* than it has tuples.
C18_FanOutOnce ==
    /\ IsPrefix(tee_seen, tee_input)
    /\ Len(tee_seen) + Len(tee_deques[0]) + Len(tee_source) = Len(tee_input)
    /\ \A k \in Streams, j \in Passes :
          /\ IsPrefix(view_seen[k][j], iterate_view(tee_input, k))
          /\ Len(view_seen[k][j]) + Len(view_deques[k][j])
               + Len(tee_deques[k + 1]) + Len(tee_source) = Len(tee_input)
    /\ tee_advanced <= Len(tee_input)
    /\ tee_source = SubSeq(tee_input, tee_advanced + 1, Len(tee_input))

\* both passes of stream 0 were drained before stream 1 was started, and
\* stream 1 then finds every tuple waiting
C18_Witness ==
    /\ Len(tee_input) = 2
    /\ view_seen[0][1] = iterate_view(tee_input, 0)
    /\ view_seen[0][2] = iterate_view(tee_input, 0)
    /\ view_seen[0][1][1] # view_seen[0][1][2]
    /\ view_seen[1][1] = <<>>
    /\ tee_deques[2] = tee_input
    /\ tee_source = <<>>
    /\ tee_advanced = 2

=============================================================================
